---- MODULE Spec2Model ----
(***************************************************************************)
(* Model of pos-writer (src/src/lib.rs): styled, wrapped and boxed line    *)
(* output on an ESC/POS printer.                                           *)
(*                                                                         *)
(* A text is a sequence of characters; a character is named by a string    *)
(* ("a", " ", or its code point "U+00E9").  A Rust String's len() is its   *)
(* UTF-8 byte length (StrLen), its number of characters is Len.            *)
(* The printer is a record: the device's style state (dev), the primitive  *)
(* calls made on it so far (calls), and the number of the primitive call   *)
(* that fails (failAt, 0: none fails).                                     *)
(***************************************************************************)
EXTENDS Integers, Sequences, FiniteSets

\* ------------------------------------------------------------------ bounds

MaxTextLen == 4
MaxWidth == 4
MaxLayers == 2
MaxFailAt == 8

\* -------------------------------------------------------------- characters

SPACE == " "
E_ACUTE == "U+00E9"

\* UTF-8 length of a character: what String::len() adds up.
Utf8Len(c) ==
    CASE c \in {"a", SPACE} -> 1
      [] c = E_ACUTE -> 2
      [] OTHER -> 3

\* String::len(): the byte length of the UTF-8 encoding.
RECURSIVE StrLen(_)
StrLen(s) == IF s = <<>> THEN 0 ELSE Utf8Len(Head(s)) + StrLen(Tail(s))

\* to_cp437(&CP437_CONTROL): one code page 437 byte per character.
Cp437Byte(c) ==
    CASE c = "a" -> 97
      [] c = SPACE -> 32
      [] c = E_ACUTE -> 130
      [] c = "U+2500" -> 196
      [] c = "U+2502" -> 179
      [] c = "U+250C" -> 218
      [] c = "U+2510" -> 191
      [] c = "U+2514" -> 192
      [] c = "U+2518" -> 217
      [] c = "U+2550" -> 205
      [] c = "U+2551" -> 186
      [] c = "U+2554" -> 201
      [] c = "U+2557" -> 187
      [] c = "U+255A" -> 200
      [] c = "U+255D" -> 188
      [] c = "U+2591" -> 176
      [] c = "U+2592" -> 177
      [] c = "U+2593" -> 178
      [] c = "U+2584" -> 220
      [] c = "U+2590" -> 222
      [] c = "U+258C" -> 221
      [] c = "U+2580" -> 223

to_cp437(line) == [k \in 1..Len(line) |-> Cp437Byte(line[k])]

\* ------------------------------------------------------------ border table

BorderTypes == {"Single", "Double", "LightShade", "MediumShade", "DarkShade", "Black"}

Uniform(g) ==
    [top_left |-> g, top |-> g, top_right |-> g, left |-> g, right |-> g,
     bottom_left |-> g, bottom |-> g, bottom_right |-> g]

SINGLE_BORDER_CHARS ==
    [top_left |-> "U+250C", top |-> "U+2500", top_right |-> "U+2510",
     left |-> "U+2502", right |-> "U+2502",
     bottom_left |-> "U+2514", bottom |-> "U+2500", bottom_right |-> "U+2518"]

DOUBLE_BORDER_CHARS ==
    [top_left |-> "U+2554", top |-> "U+2550", top_right |-> "U+2557",
     left |-> "U+2551", right |-> "U+2551",
     bottom_left |-> "U+255A", bottom |-> "U+2550", bottom_right |-> "U+255D"]

LIGHT_SHADE_BORDER_CHARS == Uniform("U+2591")

MEDIUM_SHADE_BORDER_CHARS == Uniform("U+2592")

DARK_SHADE_BORDER_CHARS == Uniform("U+2593")

BLACK_BORDER_CHARS ==
    [top_left |-> "U+2584", top |-> "U+2584", top_right |-> "U+2584",
     left |-> "U+2590", right |-> "U+258C",
     bottom_left |-> "U+2580", bottom |-> "U+2580", bottom_right |-> "U+2580"]

BorderChars(border_type) ==
    CASE border_type = "Single" -> SINGLE_BORDER_CHARS
      [] border_type = "Double" -> DOUBLE_BORDER_CHARS
      [] border_type = "LightShade" -> LIGHT_SHADE_BORDER_CHARS
      [] border_type = "MediumShade" -> MEDIUM_SHADE_BORDER_CHARS
      [] border_type = "DarkShade" -> DARK_SHADE_BORDER_CHARS
      [] border_type = "Black" -> BLACK_BORDER_CHARS

\* ------------------------------------------------------------- style layers

Kinds ==
    {"Font", "Size", "Bold", "Underline", "Justify", "UpsideDown", "Reverse",
     "DoubleStrike", "LineSpacing"}

\* StyleLayer values: kind, and the value the variant carries (none: "-").
Layer(kind, value) == [kind |-> kind, value |-> value]

StyleLayer ==
    {Layer("Font", f) : f \in {"A", "B", "C"}}
    \cup {Layer("Size", "2x3")}
    \cup {Layer("Bold", "-"), Layer("UpsideDown", "-"), Layer("Reverse", "-"),
          Layer("DoubleStrike", "-")}
    \cup {Layer("Underline", m) : m \in {"Single", "Double"}}
    \cup {Layer("Justify", "CENTER")}
    \cup {Layer("LineSpacing", "10")}

\* ------------------------------------------------------------ the printer

\* The device's style attributes after power-on.
DefaultDevice ==
    [Font |-> "A", Size |-> "1x1", Bold |-> "off", Underline |-> "None",
     Justify |-> "LEFT", UpsideDown |-> "off", Reverse |-> "off",
     DoubleStrike |-> "off", LineSpacing |-> "default"]

\* A primitive call on the printer: the attribute it sets (attr, "-" for
\* output and feed), the value it sets it to, and the bytes it outputs.
Cmd(op, attr, value) == [op |-> op, attr |-> attr, value |-> value, bytes |-> <<>>]

Custom(bytes) == [op |-> "custom", attr |-> "-", value |-> "-", bytes |-> bytes]

Feed == Cmd("feed", "-", "-")

\* What a primitive that succeeds does to the device's style attributes.
Device(dev, cmd) ==
    IF cmd.attr = "-" THEN dev ELSE [dev EXCEPT ![cmd.attr] = cmd.value]

Ok(p) == [p |-> p, ok |-> TRUE]

Err(p) == [p |-> p, ok |-> FALSE]

\* One primitive call: it is recorded; it fails when it is call number
\* failAt, and otherwise takes effect on the device.
Call(p, cmd) ==
    LET q == [p EXCEPT !.calls = Append(@, cmd)]
    IN  IF Len(q.calls) = p.failAt
        THEN Err(q)
        ELSE Ok([q EXCEPT !.dev = Device(@, cmd)])

\* ------------------------------------------------- set_style / undo_style

\* SetCmd with the Reverse arm calling upside_down(false).
SetCmdWrongArm(layer) ==
    CASE layer.kind = "Font" -> Cmd("font", "Font", layer.value)
      [] layer.kind = "Size" -> Cmd("size", "Size", layer.value)
      [] layer.kind = "Bold" -> Cmd("bold", "Bold", "on")
      [] layer.kind = "Underline" -> Cmd("underline", "Underline", layer.value)
      [] layer.kind = "Justify" -> Cmd("justify", "Justify", layer.value)
      [] layer.kind = "UpsideDown" -> Cmd("upside_down", "UpsideDown", "on")
      [] layer.kind = "Reverse" -> Cmd("upside_down", "UpsideDown", "off")
      [] layer.kind = "DoubleStrike" -> Cmd("double_strike", "DoubleStrike", "on")
      [] layer.kind = "LineSpacing" -> Cmd("line_spacing", "LineSpacing", layer.value)

\* The primitive set_style calls for a layer.
SetCmd(layer) ==
    CASE layer.kind = "Font" -> Cmd("font", "Font", layer.value)
      [] layer.kind = "Size" -> Cmd("size", "Size", layer.value)
      [] layer.kind = "Bold" -> Cmd("bold", "Bold", "on")
      [] layer.kind = "Underline" -> Cmd("underline", "Underline", layer.value)
      [] layer.kind = "Justify" -> Cmd("justify", "Justify", layer.value)
      [] layer.kind = "UpsideDown" -> Cmd("upside_down", "UpsideDown", "on")
      [] layer.kind = "Reverse" -> Cmd("reverse", "Reverse", "on")
      [] layer.kind = "DoubleStrike" -> Cmd("double_strike", "DoubleStrike", "on")
      [] layer.kind = "LineSpacing" -> Cmd("line_spacing", "LineSpacing", layer.value)

\* The primitive undo_style calls for a layer: by its kind alone.
UndoCmd(layer) ==
    CASE layer.kind = "Font" -> Cmd("font", "Font", "A")
      [] layer.kind = "Size" -> Cmd("reset_size", "Size", "1x1")
      [] layer.kind = "Bold" -> Cmd("bold", "Bold", "off")
      [] layer.kind = "Underline" -> Cmd("underline", "Underline", "None")
      [] layer.kind = "Justify" -> Cmd("justify", "Justify", "LEFT")
      [] layer.kind = "UpsideDown" -> Cmd("upside_down", "UpsideDown", "off")
      [] layer.kind = "Reverse" -> Cmd("reverse", "Reverse", "off")
      [] layer.kind = "DoubleStrike" -> Cmd("double_strike", "DoubleStrike", "off")
      [] layer.kind = "LineSpacing" -> Cmd("reset_line_spacing", "LineSpacing", "default")

\* for layer in &style.layers { ...? }: the first failure returns.
RECURSIVE set_style_loop(_, _, _)
set_style_loop(p, layers, k) ==
    IF k > Len(layers) THEN Ok(p)
    ELSE LET r == Call(p, SetCmd(layers[k]))
         IN  IF r.ok THEN set_style_loop(r.p, layers, k + 1) ELSE r

set_style(p, style) == set_style_loop(p, style, 1)

\* undo_style_loop leaving out the last layer.
RECURSIVE undo_style_loop_short(_, _, _)
undo_style_loop_short(p, layers, k) ==
    IF k >= Len(layers) THEN Ok(p)
    ELSE LET r == Call(p, UndoCmd(layers[k]))
         IN  IF r.ok THEN undo_style_loop_short(r.p, layers, k + 1) ELSE r

RECURSIVE undo_style_loop(_, _, _)
undo_style_loop(p, layers, k) ==
    IF k > Len(layers) THEN Ok(p)
    ELSE LET r == Call(p, UndoCmd(layers[k]))
         IN  IF r.ok THEN undo_style_loop(r.p, layers, k + 1) ELSE r

\* undo_style going through the layers last to first.
undo_style_reversed(p, style) ==
    undo_style_loop(p, [k \in 1..Len(style) |-> style[Len(style) + 1 - k]], 1)

undo_style(p, style) == undo_style_loop(p, style, 1)

\* ------------------------------------------------------ print / print_line

print(p, line) == Call(p, Custom(to_cp437(line)))

\* print_line dropping print's result instead of returning its failure.
print_line_unchecked(p, line) == Call(print(p, line).p, Feed)

print_line(p, line) ==
    LET r == print(p, line)
    IN  IF r.ok THEN Call(r.p, Feed) ELSE r

\* --------------------------------------------------- print_line_with_style

print_line_with_style(p, style, text) ==
    LET r1 == set_style(p, style)
    IN  IF ~r1.ok THEN r1
        ELSE LET r2 == print_line(r1.p, text)
             IN  IF ~r2.ok THEN r2 ELSE undo_style(r2.p, style)

\* ----------------------------------------------- print_line_with_style_box

\* Option<u32>: None, Some(max_width).
None == <<>>
Some(v) == <<v>>

\* Option<BorderType>: None, or the border type.
NoBorder == "None"

\* text.split(' '): the pieces between the spaces, empty pieces included;
\* there is one piece more than there are spaces.
RECURSIVE SplitFrom(_, _)
SplitFrom(s, piece) ==
    IF s = <<>> THEN <<piece>>
    ELSE IF Head(s) = SPACE THEN <<piece>> \o SplitFrom(Tail(s), <<>>)
    ELSE SplitFrom(Tail(s), Append(piece, Head(s)))

Split(s) == SplitFrom(s, <<>>)

\* Overflows without the separating space counted.
OverflowsNoSeparator(current_line, word, max_width) ==
    StrLen(current_line) + StrLen(word) > max_width

\* The test of line 156: the word does not fit behind the current line.
Overflows(current_line, word, max_width) ==
    StrLen(current_line) + StrLen(word) + 1 > max_width

\* The body of the loop over the words (lines 156-168).
WrapWord(acc, word, max_width) ==
    IF Overflows(acc.current_line, word, max_width)
    THEN IF StrLen(acc.current_line) = 0
         THEN [acc EXCEPT !.lines = Append(@, word)]
         ELSE [lines |-> Append(acc.lines, acc.current_line), current_line |-> word]
    ELSE [acc EXCEPT !.current_line =
              (IF StrLen(@) # 0 THEN Append(@, SPACE) ELSE @) \o word]

RECURSIVE WrapWords(_, _, _)
WrapWords(acc, words, max_width) ==
    IF words = <<>> THEN acc
    ELSE WrapWords(WrapWord(acc, Head(words), max_width), Tail(words), max_width)

\* Flush with the last line left behind.
FlushNothing(acc) == acc.lines

\* The flush after the loop (lines 170-172).
Flush(acc) ==
    IF acc.current_line # <<>> THEN Append(acc.lines, acc.current_line) ELSE acc.lines

\* Wrap pushing nothing when there is no width.
WrapNothingUnbounded(text, wrap_chars) ==
    IF wrap_chars # None
    THEN Flush(WrapWords([lines |-> <<>>, current_line |-> <<>>], Split(text),
                         wrap_chars[1]))
    ELSE <<>>

\* Lines 151-175: the lines of the text.
Wrap(text, wrap_chars) ==
    IF wrap_chars # None
    THEN Flush(WrapWords([lines |-> <<>>, current_line |-> <<>>], Split(text),
                         wrap_chars[1]))
    ELSE <<text>>

Repeat(c, n) == [k \in 1..n |-> c]

RECURSIVE MaxOf(_)
MaxOf(ns) ==
    IF ns = <<>> THEN 0
    ELSE LET m == MaxOf(Tail(ns)) IN IF Head(ns) > m THEN Head(ns) ELSE m

\* Lines 187-191: the widest line, by String::len(); 0 when there is none.
MaxLineWidth(lines) == MaxOf([k \in 1..Len(lines) |-> StrLen(lines[k])])

\* Lines 196-202: a line between the left and the right edge.
PadLine(line, max_width, bc) ==
    <<bc.left, SPACE>> \o line \o Repeat(SPACE, max_width - StrLen(line))
        \o <<SPACE, bc.right>>

\* Lines 206-213: a rule.
vertical_line(left, middle, right, max_width) ==
    <<left>> \o Repeat(middle, max_width + 2) \o <<right>>

\* Lines 177-227: the lines in their frame.
Frame(lines, border_type) ==
    IF border_type # NoBorder
    THEN LET bc == BorderChars(border_type)
             max_width == MaxLineWidth(lines)
             box_top == vertical_line(bc.top_left, bc.top, bc.top_right, max_width)
             box_bottom ==
                 vertical_line(bc.bottom_left, bc.bottom, bc.bottom_right, max_width)
         IN  <<box_top>>
                 \o [k \in 1..Len(lines) |-> PadLine(lines[k], max_width, bc)]
                 \o <<box_bottom>>
    ELSE lines

\* for line in lines { print_line(printer, &line)?; }
RECURSIVE print_lines(_, _, _)
print_lines(p, lines, k) ==
    IF k > Len(lines) THEN Ok(p)
    ELSE LET r == print_line(p, lines[k])
         IN  IF r.ok THEN print_lines(r.p, lines, k + 1) ELSE r

print_line_with_style_box(p, style, text, text_box) ==
    LET r1 == set_style(p, style)
    IN  IF ~r1.ok THEN r1
        ELSE LET lines == Frame(Wrap(text, text_box.wrap_chars), text_box.border_type)
                 r2 == print_lines(r1.p, lines, 1)
             IN  IF ~r2.ok THEN r2 ELSE undo_style(r2.p, style)

\* ------------------------------------------------------------------ state

VARIABLES
    style,      \* the Style's layers
    text,       \* the text, or the line for print and print_line
    text_box,   \* the TextBox: wrap_chars and border_type
    printer,    \* the printer: dev, calls, failAt
    initial,    \* the device's style attributes before the call
    pc,         \* "ready", or the function that has returned
    result      \* "-", or what the function returned: "Ok" or "Err"

vars == <<style, text, text_box, printer, initial, pc, result>>

Chars == {"a", SPACE, E_ACUTE}

SeqsUpTo(S, n) == UNION {[1..k -> S] : k \in 0..n}

\* A device some attributes of which an earlier use has left set.
UsedDevice ==
    [Font |-> "B", Size |-> "3x2", Bold |-> "on", Underline |-> "Double",
     Justify |-> "RIGHT", UpsideDown |-> "on", Reverse |-> "on",
     DoubleStrike |-> "on", LineSpacing |-> "20"]

TextBox(wrap_chars, border_type) ==
    [wrap_chars |-> wrap_chars, border_type |-> border_type]

InitWith(styles, texts, boxes, devices, fails) ==
    /\ style \in styles
    /\ text \in texts
    /\ text_box \in boxes
    /\ initial \in devices
    /\ \E f \in fails : printer = [dev |-> initial, calls |-> <<>>, failAt |-> f]
    /\ pc = "ready"
    /\ result = "-"

\* Layout: every text, width and border; two styles, no failure.
InitLayout ==
    InitWith({<<>>, <<Layer("Bold", "-")>>},
             SeqsUpTo(Chars, MaxTextLen),
             {TextBox(w, b) : w \in {None} \cup {Some(v) : v \in 0..MaxWidth},
                              b \in {NoBorder} \cup BorderTypes},
             {DefaultDevice}, {0})

\* Styles: every style and failure, two devices, two texts, two boxes.
InitStyle ==
    InitWith(SeqsUpTo(StyleLayer, MaxLayers),
             {<<>>, <<"a", SPACE, "a">>},
             {TextBox(None, NoBorder), TextBox(Some(1), "Single")},
             {DefaultDevice, UsedDevice}, 0..MaxFailAt)

Return(name, r) ==
    /\ pc = "ready"
    /\ pc' = name
    /\ printer' = r.p
    /\ result' = IF r.ok THEN "Ok" ELSE "Err"
    /\ UNCHANGED <<style, text, text_box, initial>>

SetStyle == Return("set_style", set_style(printer, style))

UndoStyle == Return("undo_style", undo_style(printer, style))

PrintText == Return("print", print(printer, text))

PrintLine == Return("print_line", print_line(printer, text))

PrintLineWithStyle ==
    Return("print_line_with_style", print_line_with_style(printer, style, text))

PrintLineWithStyleBox ==
    Return("print_line_with_style_box",
           print_line_with_style_box(printer, style, text, text_box))

Next ==
    \/ SetStyle
    \/ UndoStyle
    \/ PrintText
    \/ PrintLine
    \/ PrintLineWithStyle
    \/ PrintLineWithStyleBox

Init == InitLayout \/ InitStyle

Spec == Init /\ [][Next]_vars

SpecLayout == InitLayout /\ [][Next]_vars

SpecStyle == InitStyle /\ [][Next]_vars

\* ------------------------------------------------------------------ claims

Boxed == pc = "print_line_with_style_box"

Plain == pc = "print_line_with_style"

\* The payloads of the raw outputs among the calls, in order: the lines sent.
RECURSIVE Outputs(_)
Outputs(calls) ==
    IF calls = <<>> THEN <<>>
    ELSE (IF Head(calls).op = "custom" THEN <<Head(calls).bytes>> ELSE <<>>)
             \o Outputs(Tail(calls))

Sent == Outputs(printer.calls)

Width == text_box.wrap_chars[1]

\* The non-empty words of a sequence: its maximal runs without the separator.
RECURSIVE WordsFrom(_, _, _)
WordsFrom(s, sep, run) ==
    IF s = <<>> THEN (IF run = <<>> THEN <<>> ELSE <<run>>)
    ELSE IF Head(s) = sep
         THEN (IF run = <<>> THEN <<>> ELSE <<run>>) \o WordsFrom(Tail(s), sep, <<>>)
         ELSE WordsFrom(Tail(s), sep, Append(run, Head(s)))

Words(s, sep) == WordsFrom(s, sep, <<>>)

\* The lines joined with single separators.
RECURSIVE Join(_, _)
Join(lines, sep) ==
    IF lines = <<>> THEN <<>>
    ELSE IF Len(lines) = 1 THEN lines[1]
    ELSE lines[1] \o <<sep>> \o Join(Tail(lines), sep)

HasSpace(bytes) == \E k \in 1..Len(bytes) : bytes[k] = 32

WrappedOnly ==
    /\ Boxed
    /\ text_box.wrap_chars # None
    /\ text_box.border_type = NoBorder

\* C1: with a width W and no border, every line is at most W long, except a
\* line that is one word longer than W; a line longer than W holds no second
\* word.  Stated of the lines sent, in characters, and of the lines before
\* their conversion, in String::len() units.
C1_WidthBound ==
    WrappedOnly =>
        LET lines == Wrap(text, text_box.wrap_chars)
        IN  /\ \A k \in 1..Len(Sent) : Len(Sent[k]) <= Width \/ ~HasSpace(Sent[k])
            /\ \A k \in 1..Len(lines) :
                   \/ StrLen(lines[k]) <= Width
                   \/ \A j \in 1..Len(lines[k]) : lines[k][j] # SPACE

\* An oversized word on a line of its own, with another line beside it.
C1_Witness ==
    /\ WrappedOnly
    /\ Len(Sent) >= 2
    /\ \E k \in 1..Len(Sent) : Len(Sent[k]) > Width
    /\ \E k \in 1..Len(Sent) : Len(Sent[k]) <= Width /\ Sent[k] # <<>>

\* C2: the lines sent, joined with single spaces and split on spaces, give
\* the non-empty words of the text, in order.
C2_LosslessRejoin ==
    WrappedOnly => Words(Join(Sent, 32), 32) = Words(to_cp437(text), 32)

\* Three words on more than one line, from a text with a doubled space.
C2_Witness ==
    /\ WrappedOnly
    /\ Len(Sent) >= 2
    /\ Len(Words(to_cp437(text), 32)) >= 2
    /\ \E k \in 1..(Len(text) - 1) : text[k] = SPACE /\ text[k + 1] = SPACE

\* C3: the empty text with a width W >= 0 and no border sends no raw output
\* and no feed.
C3_EmptyTextNoLines ==
    (WrappedOnly /\ text = <<>>) =>
        \A k \in 1..Len(printer.calls) : printer.calls[k].op \notin {"custom", "feed"}

RECURSIVE MaxLen(_)
MaxLen(lines) ==
    IF lines = <<>> THEN 0
    ELSE LET m == MaxLen(Tail(lines))
         IN  IF Len(Head(lines)) > m THEN Len(Head(lines)) ELSE m

\* C4: with a border, the n wrapped lines are sent as n + 2 lines of the same
\* number of characters, the widest line's plus 4: a rule, the lines between
\* their edges, a rule.
C4_Rectangular ==
    (Boxed /\ text_box.border_type # NoBorder) =>
        LET lines == Wrap(text, text_box.wrap_chars)
            n == Len(lines)
            m == MaxLen(lines)
            bc == BorderChars(text_box.border_type)
        IN  /\ Len(Sent) = n + 2
            /\ \A k \in 1..(n + 2) : Len(Sent[k]) = m + 4
            /\ Sent[1] = to_cp437(<<bc.top_left>> \o [j \in 1..(m + 2) |-> bc.top]
                                      \o <<bc.top_right>>)
            /\ Sent[n + 2] = to_cp437(<<bc.bottom_left>>
                                          \o [j \in 1..(m + 2) |-> bc.bottom]
                                          \o <<bc.bottom_right>>)
            /\ \A k \in 1..n :
                   /\ SubSeq(Sent[k + 1], 1, Len(lines[k]) + 2)
                          = to_cp437(<<bc.left, SPACE>> \o lines[k])
                   /\ \A j \in (Len(lines[k]) + 3)..(m + 3) : Sent[k + 1][j] = 32
                   /\ Sent[k + 1][m + 4] = Cp437Byte(bc.right)

FirstWord(bytes) ==
    LET ws == Words(bytes, 32) IN IF ws = <<>> THEN <<>> ELSE ws[1]

\* C9: of two consecutive lines sent, the earlier one, a space and the first
\* word of the later one are together longer than W.
C9_Greedy ==
    WrappedOnly =>
        \A k \in 1..(Len(Sent) - 1) :
            Len(Sent[k]) + 1 + Len(FirstWord(Sent[k + 1])) > Width

\* The printer as it was handed to the function that has returned.
Handed == [dev |-> initial, calls |-> <<>>, failAt |-> printer.failAt]

NoFailure == printer.failAt = 0 \/ printer.failAt > Len(printer.calls)

\* The neutral value of each kind of layer.
Neutral ==
    [Font |-> "A", Size |-> "1x1", Bold |-> "off", Underline |-> "None",
     Justify |-> "LEFT", UpsideDown |-> "off", Reverse |-> "off",
     DoubleStrike |-> "off", LineSpacing |-> "default"]

\* The value a layer's apply command sets.
Applied(layer) == IF layer.value = "-" THEN "on" ELSE layer.value

\* C5: when no primitive fails, print_line_with_style calls one apply
\* command per layer in list order, one raw output of the text, one feed, and
\* one revert command per layer in list order, each the neutral command of
\* the layer's kind.
C5_ApplyEmitRevert ==
    (Plain /\ NoFailure) =>
        LET n == Len(style)
            c == printer.calls
        IN  /\ result = "Ok"
            /\ Len(c) = 2 * n + 2
            /\ \A k \in 1..n :
                   /\ c[k].attr = style[k].kind
                   /\ c[k].value = Applied(style[k])
                   /\ c[n + 2 + k].attr = style[k].kind
                   /\ c[n + 2 + k].value = Neutral[style[k].kind]
            /\ c[n + 1] = Custom(to_cp437(text))
            /\ c[n + 2].op = "feed"

\* [Bold, Underline(Single)]: bold(true), underline(Single), the line,
\* bold(false), underline(None).
C5_Witness ==
    /\ Plain
    /\ result = "Ok"
    /\ style = <<Layer("Bold", "-"), Layer("Underline", "Single")>>
    /\ text # <<>>
    /\ [k \in 1..Len(printer.calls) |-> printer.calls[k].op]
           = <<"bold", "underline", "custom", "feed", "bold", "underline">>
    /\ [k \in {1, 2, 5, 6} |-> printer.calls[k].value]
           = [k \in {1, 2, 5, 6} |->
                  CASE k = 1 -> "on" [] k = 2 -> "Single" [] k = 5 -> "off"
                    [] k = 6 -> "None"]

\* The orders of n things.
Orders(n) == {f \in [1..n -> 1..n] : \A i, j \in 1..n : f[i] = f[j] => i = j}

\* The device after set_style has succeeded on the layers in another order.
SameInEveryOrder ==
    \A f \in Orders(Len(style)) :
        set_style([Handed EXCEPT !.failAt = 0],
                  [k \in 1..Len(style) |-> style[f[k]]]).p.dev = printer.dev

\* C6 as claimed: set_style leaves the device in the same state whatever the
\* order of the layers.
C6_OrderIndependent ==
    (pc = "set_style" /\ result = "Ok") => SameInEveryOrder

\* No two layers of one kind carry different values.
NoConflict == \A i, j \in 1..Len(style) : style[i].kind = style[j].kind => style[i] = style[j]

\* C6 amended: set_style leaves the device in the same state whatever the
\* order of the layers, when no two layers of one kind carry different
\* values.
C6_OrderIndependentNoConflict ==
    (pc = "set_style" /\ result = "Ok" /\ NoConflict) => SameInEveryOrder

\* Two layers of different kinds applied to a device they change.
C6_Witness ==
    /\ pc = "set_style"
    /\ result = "Ok"
    /\ NoConflict
    /\ Len(style) >= 2
    /\ style[1].kind # style[2].kind
    /\ printer.dev[style[1].kind] # initial[style[1].kind]
    /\ printer.dev[style[2].kind] # initial[style[2].kind]

\* The device after the calls have taken effect, first to last.
RECURSIVE After(_, _)
After(dev, calls) ==
    IF calls = <<>> THEN dev
    ELSE After([dev EXCEPT ![Head(calls).attr] = Head(calls).value], Tail(calls))

StyleCalls(calls) == SelectSeq(calls, LAMBDA c : c.attr # "-")

\* The calls the function that has returned makes when none fails.
Unfailing ==
    IF Plain
    THEN print_line_with_style([Handed EXCEPT !.failAt = 0], style, text).p.calls
    ELSE print_line_with_style_box([Handed EXCEPT !.failAt = 0], style, text,
                                   text_box).p.calls

\* C7: when a primitive fails, print_line_with_style and
\* print_line_with_style_box return the failure and call nothing more: the
\* calls are those of the run without failure up to the failing one, none is
\* repeated or undone, and the device is as the calls before the failing one
\* left it; no revert command is called unless all before it succeeded.
C7_FirstFailureAborts ==
    (Plain \/ Boxed) =>
        LET c == printer.calls
            f == printer.failAt
        IN  /\ result = "Err" <=> f \in 1..Len(Unfailing)
            /\ result = "Err" =>
                   /\ c = SubSeq(Unfailing, 1, f)
                   /\ printer.dev = After(initial, StyleCalls(SubSeq(c, 1, f - 1)))
            /\ result = "Ok" => c = Unfailing

\* A line fails after the styles were applied: they stay set, and two lines
\* and the reverts are not called.
C7_Witness ==
    /\ Boxed
    /\ result = "Err"
    /\ Len(style) = 2
    /\ printer.failAt = Len(style) + 1
    /\ Len(Unfailing) >= Len(style) + 4 + Len(style)
    /\ printer.dev # initial
    /\ \A k \in 1..Len(style) : printer.dev[style[k].kind] = Applied(style[k])

\* C8: with no width and no border, print_line_with_style_box makes the
\* calls, and returns the result, of print_line_with_style on the same
\* printer, style and text.
C8_UnboundedIsPlain ==
    (Boxed /\ text_box = TextBox(None, NoBorder)) =>
        LET r == print_line_with_style(Handed, style, text)
        IN  /\ printer = r.p
            /\ result = (IF r.ok THEN "Ok" ELSE "Err")
            /\ Sent \in {<<>>, <<to_cp437(text)>>}
            /\ NoFailure => Sent = <<to_cp437(text)>>

\* A text with a space, sent as one line.
C8_Witness ==
    /\ Boxed
    /\ text_box = TextBox(None, NoBorder)
    /\ \E k \in 1..Len(text) : text[k] = SPACE
    /\ result = "Ok"
    /\ style # <<>>
    /\ Sent = <<to_cp437(text)>>

Occurs(kind) == \E k \in 1..Len(style) : style[k].kind = kind

\* C10: after print_line_with_style or print_line_with_style_box has
\* succeeded, every attribute whose kind occurs in the style is at its
\* neutral value, and every other attribute has the value it had before.
C10_DeviceAfterPrint ==
    ((Plain \/ Boxed) /\ result = "Ok") =>
        \A kind \in Kinds :
            printer.dev[kind] = IF Occurs(kind) THEN Neutral[kind] ELSE initial[kind]

\* A device with font B and bold on, a style of Font(C): font A, bold on.
C10_Witness ==
    /\ Boxed
    /\ result = "Ok"
    /\ initial.Font = "B"
    /\ style = <<Layer("Font", "C"), Layer("Underline", "Single")>>
    /\ printer.dev.Font = "A"
    /\ printer.dev.Underline = "None"
    /\ printer.dev.Bold = "on"

====
